---- MODULE Spec2Model ----
(***************************************************************************)
(* Model of gnfnt.py: the feed registry (fontRepos.json), the feed         *)
(* resolver, the package installer, the local file installer and the      *)
(* command dispatcher.  Strings whose characters matter (asset names,     *)
(* file names, package names) are sequences of one-character strings.     *)
(***************************************************************************)
EXTENDS Integers, Sequences, FiniteSets, TLC

\* ------------------------------------------------------------------ bounds
MaxUrls  == 2
MaxPaths == 2
MaxNames == 2

\* ------------------------------------------------------- string operations
ZIP == <<".", "z", "i", "p">>
TTF == <<".", "t", "t", "f">>
OTF == <<".", "o", "t", "f">>

Range(s) == {s[i] : i \in DOMAIN s}

\* str.endswith
EndsWith(s, suf) ==
    /\ Len(s) >= Len(suf)
    /\ SubSeq(s, Len(s) - Len(suf) + 1, Len(s)) = suf

\* str.startswith
StartsWith(s, pre) ==
    /\ Len(s) >= Len(pre)
    /\ SubSeq(s, 1, Len(pre)) = pre

\* str.replace(old, ""): every non-overlapping occurrence, left to right
RECURSIVE Replace(_, _)
Replace(s, old) ==
    IF Len(s) < Len(old) THEN s
    ELSE IF SubSeq(s, 1, Len(old)) = old
         THEN Replace(SubSeq(s, Len(old) + 1, Len(s)), old)
         ELSE <<s[1]>> \o Replace(Tail(s), old)

\* str.lower on the characters the model uses
LowerChar(c) ==
    CASE c = "T" -> "t"
      [] c = "Y" -> "y"
      [] c = "F" -> "f"
      [] c = "O" -> "o"
      [] OTHER   -> c

Lower(s) == [i \in DOMAIN s |-> LowerChar(s[i])]

\* pathlib suffix: from the last dot, unless that dot is first or last
LastDot(s) ==
    IF \E i \in DOMAIN s : s[i] = "."
    THEN CHOOSE i \in DOMAIN s :
            s[i] = "." /\ \A j \in DOMAIN s : s[j] = "." => j <= i
    ELSE 0

Suffix(s) ==
    LET i == LastDot(s)
    IN IF i > 1 /\ i < Len(s) THEN SubSeq(s, i, Len(s)) ELSE <<>>

\* the list of a finite set, in some order
RECURSIVE SetToSeq(_)
SetToSeq(S) ==
    IF S = {} THEN <<>>
    ELSE LET x == CHOOSE y \in S : TRUE
         IN <<x>> \o SetToSeq(S \ {x})

\* the sequences over S without repetition, of length at most n
NoDupSeqs(S, n) ==
    {s \in UNION {[1..k -> S] : k \in 0..n} :
        \A i, j \in DOMAIN s : i # j => s[i] # s[j]}

\* the non-empty sequences over S of length at most n
SeqsUpTo(S, n) == UNION {[1..k -> S] : k \in 1..n}

\* one log entry: what was printed or which collaborator was called
Ev(e, n) == <<e, n>>

\* ---------------------------------------------------------------- registry
\* feed URLs are opaque: 0 stands for the built-in
\* https://api.github.com/repos/ryanoasis/nerd-fonts/releases/latest
DefaultRepo == 0
Urls == 0..(MaxUrls - 1)

\* fontRepos.json: absent, not JSON, JSON but not an object, an object
\* without the "repositories" key, or {"repositories": [...]}
FileAbsent    == [kind |-> "absent",    repos |-> <<>>]
FileNotJson   == [kind |-> "notjson",   repos |-> <<>>]
FileNonObject == [kind |-> "nonobject", repos |-> <<>>]
FileNoKey     == [kind |-> "nokey",     repos |-> <<>>]
FileList(r)   == [kind |-> "list",      repos |-> r]

\* load_repositories: the list returned, or raised = TRUE when data.get
\* is applied to a JSON value that is not an object (AttributeError)
load_repositories(file) ==
    CASE file.kind = "absent"    -> [raised |-> FALSE, val |-> <<DefaultRepo>>]
      [] file.kind = "notjson"   -> [raised |-> FALSE, val |-> <<DefaultRepo>>]
      [] file.kind = "nonobject" -> [raised |-> TRUE,  val |-> <<>>]
      [] file.kind = "nokey"     -> [raised |-> FALSE, val |-> <<>>]
      [] OTHER                   -> [raised |-> FALSE, val |-> file.repos]

save_repositories(repositories) == FileList(repositories)

\* list.remove: drops the first occurrence
RECURSIVE ListRemove(_, _)
ListRemove(s, x) ==
    IF s = <<>> THEN <<>>
    ELSE IF Head(s) = x THEN Tail(s)
         ELSE <<Head(s)>> \o ListRemove(Tail(s), x)

\* add_repository without the membership test
add_repository_NoCheck(file, url) ==
    LET l == load_repositories(file) IN
    IF l.raised THEN [raised |-> TRUE, file |-> file, log |-> <<>>]
    ELSE [raised |-> FALSE,
          file |-> save_repositories(Append(l.val, url)),
          log |-> <<Ev("save", <<url>>), Ev("added", <<url>>)>>]

\* add_repository: the file afterwards and the log of the call
add_repository(file, url) ==
    LET l == load_repositories(file) IN
    IF l.raised THEN [raised |-> TRUE, file |-> file, log |-> <<>>]
    ELSE IF url \in Range(l.val)
         THEN [raised |-> FALSE, file |-> file,
               log |-> <<Ev("already_added", <<url>>)>>]
         ELSE [raised |-> FALSE,
               file |-> save_repositories(Append(l.val, url)),
               log |-> <<Ev("save", <<url>>), Ev("added", <<url>>)>>]

\* remove_repository that forgets to save the shortened list
remove_repository_NoSave(file, url) ==
    LET l == load_repositories(file) IN
    IF l.raised THEN [raised |-> TRUE, file |-> file, log |-> <<>>]
    ELSE IF url \notin Range(l.val)
         THEN [raised |-> FALSE, file |-> file,
               log |-> <<Ev("repo_not_found", <<url>>)>>]
         ELSE [raised |-> FALSE, file |-> file,
               log |-> <<Ev("removed", <<url>>)>>]

\* remove_repository
remove_repository(file, url) ==
    LET l == load_repositories(file) IN
    IF l.raised THEN [raised |-> TRUE, file |-> file, log |-> <<>>]
    ELSE IF url \notin Range(l.val)
         THEN [raised |-> FALSE, file |-> file,
               log |-> <<Ev("repo_not_found", <<url>>)>>]
         ELSE [raised |-> FALSE,
               file |-> save_repositories(ListRemove(l.val, url)),
               log |-> <<Ev("save", <<url>>), Ev("removed", <<url>>)>>]

\* ----------------------------------------------------------- feed resolver
\* asset names a feed may report
AssetA     == <<"a">> \o ZIP
AssetB     == <<"b">> \o ZIP
AssetAZZ   == <<"a">> \o ZIP \o ZIP
AssetTxt   == <<"r", ".", "t", "x", "t">>
AssetLists == {<<AssetA, AssetTxt>>, <<AssetB, AssetA>>, <<AssetAZZ>>}

\* what requests.get(repo) can produce: a RequestException, a status other
\* than 200, a blank body, a body that is not JSON, JSON that is not an
\* object (response.json().get raises AttributeError), or an asset list
RespErr(k) == [kind |-> k, assets |-> <<>>]
RespOk(a)  == [kind |-> "ok", assets |-> a]
FeedResponses ==
    {RespErr(k) : k \in {"neterr", "non200", "empty", "badjson", "nonobject"}}
        \cup {RespOk(a) : a \in AssetLists}

\* the list comprehension of line 94
FontsOfAssets(assets) ==
    LET IsZip(a) == EndsWith(a, ZIP)
        zips == SelectSeq(assets, IsZip)
    IN [i \in DOMAIN zips |-> Replace(zips[i], ZIP)]

\* the for loop over the repositories, from position i
RECURSIVE FetchLoop(_, _, _, _, _, _)
FetchLoop(repositories, resps, i, all_fonts, invalid_repos, log) ==
    IF i > Len(repositories)
    THEN [raised |-> FALSE, all_fonts |-> all_fonts,
          invalid_repos |-> invalid_repos, log |-> log]
    ELSE LET repo == repositories[i]
             r    == resps[i]
             l1   == Append(log, Ev("GET", <<repo>>))
         IN CASE r.kind = "ok" ->
                   FetchLoop(repositories, resps, i + 1,
                             all_fonts \o FontsOfAssets(r.assets),
                             invalid_repos, l1)
              [] r.kind = "nonobject" ->
                   [raised |-> TRUE, all_fonts |-> all_fonts,
                    invalid_repos |-> invalid_repos, log |-> l1]
              [] OTHER ->
                   FetchLoop(repositories, resps, i + 1, all_fonts,
                             Append(invalid_repos, repo),
                             Append(l1, Ev("invalid_repo", <<repo>>)))

\* the loop that removes the invalid repositories
RECURSIVE PruneLoop(_, _, _)
PruneLoop(file, invalid_repos, log) ==
    IF invalid_repos = <<>> THEN [file |-> file, log |-> log]
    ELSE LET r == remove_repository(file, Head(invalid_repos))
         IN PruneLoop(r.file, Tail(invalid_repos), log \o r.log)

\* get_all_nerd_fonts: the set returned, the file afterwards, the log
get_all_nerd_fonts(file, resps) ==
    LET l == load_repositories(file) IN
    IF l.raised
    THEN [raised |-> TRUE, fonts |-> {}, file |-> file, log |-> <<>>]
    ELSE LET f == FetchLoop(l.val, resps, 1, <<>>, <<>>, <<>>) IN
         IF f.raised
         THEN [raised |-> TRUE, fonts |-> {}, file |-> file, log |-> f.log]
         ELSE LET p == PruneLoop(file, f.invalid_repos, f.log)
              IN [raised |-> FALSE, fonts |-> Range(f.all_fonts),
                  file |-> p.file, log |-> p.log]

\* ---------------------------------------------------------- font directory
FontSuffixes == {TTF, OTF}

\* a directory's files: name -> content
NoFiles == [n \in {} |-> "new"]
FilesOf(names, content) == [n \in names |-> content]
Without(files, names) == [n \in DOMAIN files \ names |-> files[n]]

\* the match of one glob pattern segment against a name: "*" stands for any
\* characters, "?" for one character, the element "[to]" for a "t" or an "o",
\* every other character for itself (case-sensitive)
RECURSIVE FnMatch(_, _)
FnMatch(pat, name) ==
    IF pat = <<>> THEN name = <<>>
    ELSE IF Head(pat) = "*"
         THEN \/ FnMatch(Tail(pat), name)
              \/ name # <<>> /\ FnMatch(pat, Tail(name))
    ELSE IF name = <<>> THEN FALSE
    ELSE IF Head(pat) = "?" THEN FnMatch(Tail(pat), Tail(name))
    ELSE IF Head(pat) = "[to]"
         THEN Head(name) \in {"t", "o"} /\ FnMatch(Tail(pat), Tail(name))
    ELSE Head(pat) = Head(name) /\ FnMatch(Tail(pat), Tail(name))

\* fonts_dir.glob(font_name + "*.[to]tf") on one file name
GlobMatch(font_name, f) ==
    FnMatch(font_name \o <<"*", ".", "[to]", "t", "f">>, f)

\* Path.glob refuses a pattern that starts at the root (NotImplementedError:
\* non-relative patterns are unsupported), whatever the directory holds
GlobRaises(font_name) ==
    /\ font_name # <<>>
    /\ font_name[1] = "/"

\* is_font_installed, for a name glob accepts
is_font_installed(ffiles, font_name) ==
    \E f \in DOMAIN ffiles : GlobMatch(font_name, f)

\* -------------------------------------------------------- package installer
FA == <<"a">> \o TTF
FB == <<"b">> \o OTF
FR == <<"r", ".", "t", "x", "t">>

PkgA == <<"a">>
PkgB == <<"b">>
PkgAbs == <<"/", "a">>
Packages == {PkgA, PkgB, PkgAbs}

\* the file system the installers touch: the font directory and ~/.gnfnt_temp
World(fe, ff, te, tf) ==
    [fexists |-> fe, ffiles |-> ff, texists |-> te, tfiles |-> tf]

\* what the download of an archive can produce: a RequestException, a status
\* other than 200, a body zipfile rejects, or an archive with these files
Archives ==
    {FilesOf({FR}, "new"), FilesOf({FA, FB, FR}, "new")}
DlErr(k) == [kind |-> k, archive |-> NoFiles]
DlOk(a)  == [kind |-> "ok", archive |-> a]
DownloadResponses ==
    {DlErr(k) : k \in {"neterr", "non200", "corrupt"}}
        \cup {DlOk(a) : a \in Archives}

\* the loop of lines 175-182 moving over an existing destination
RECURSIVE DownloadMoveLoop_Overwrite(_, _, _, _, _)
DownloadMoveLoop_Overwrite(entries, ffiles, tfiles, installed, log) ==
    IF entries = <<>>
    THEN [ffiles |-> ffiles, tfiles |-> tfiles,
          installed |-> installed, log |-> log]
    ELSE LET font_file == Head(entries) IN
         IF Suffix(font_file) \in FontSuffixes
         THEN DownloadMoveLoop_Overwrite(Tail(entries),
                                    (font_file :> tfiles[font_file]) @@ ffiles,
                                    Without(tfiles, {font_file}), TRUE, log)
         ELSE DownloadMoveLoop_Overwrite(Tail(entries), ffiles, tfiles,
                                         installed, log)

\* the loop of lines 175-182 over the entries of the temporary directory
RECURSIVE DownloadMoveLoop(_, _, _, _, _)
DownloadMoveLoop(entries, ffiles, tfiles, installed, log) ==
    IF entries = <<>>
    THEN [ffiles |-> ffiles, tfiles |-> tfiles,
          installed |-> installed, log |-> log]
    ELSE LET font_file == Head(entries) IN
         IF Suffix(font_file) \in FontSuffixes
         THEN IF font_file \in DOMAIN ffiles
              THEN DownloadMoveLoop(Tail(entries), ffiles, tfiles, installed,
                                    Append(log, Ev("skip_existing", font_file)))
              ELSE DownloadMoveLoop(Tail(entries),
                                    (font_file :> tfiles[font_file]) @@ ffiles,
                                    Without(tfiles, {font_file}), TRUE, log)
         ELSE DownloadMoveLoop(Tail(entries), ffiles, tfiles, installed, log)

\* download_and_install_font
download_and_install_font(w, font_name, resp) ==
    IF is_font_installed(w.ffiles, font_name)
    THEN [raised |-> FALSE, outcome |-> "AlreadyInstalled", w |-> w,
          log |-> <<Ev("AlreadyInstalled", font_name)>>]
    ELSE LET font_zip == font_name \o ZIP
             get      == <<Ev("GET", font_zip)>>
         IN CASE resp.kind = "neterr" ->
                   [raised |-> TRUE, outcome |-> "RequestException",
                    w |-> World(TRUE, w.ffiles, TRUE, w.tfiles),
                    log |-> get]
              [] resp.kind = "non200" ->
                   [raised |-> FALSE, outcome |-> "DownloadFailed",
                    w |-> World(TRUE, w.ffiles, TRUE, w.tfiles),
                    log |-> Append(get, Ev("DownloadFailed", font_name))]
              [] resp.kind = "corrupt" ->
                   [raised |-> TRUE, outcome |-> "BadZipFile",
                    w |-> World(TRUE, w.ffiles, TRUE,
                                (font_zip :> "zip") @@ w.tfiles),
                    log |-> Append(get, Ev("BadZipFile", font_name))]
              [] OTHER ->
                   LET extracted == resp.archive @@ (font_zip :> "zip")
                                        @@ w.tfiles
                       m == DownloadMoveLoop(SetToSeq(DOMAIN extracted),
                                             w.ffiles, extracted, FALSE, get)
                   IN [raised |-> FALSE, outcome |-> "Installed",
                       w |-> World(TRUE, m.ffiles, FALSE, NoFiles),
                       log |-> Append(m.log, Ev("Installed", font_name))]

\* ------------------------------------------------------ local file installer
\* a path of the command line with what the file system holds there
Path(n, e, c, a) == [name |-> n, exists |-> e, corrupt |-> c, archive |-> a]
PathFont    == Path(FA, TRUE, FALSE, NoFiles)
PathMissing == Path(<<"m">> \o TTF, FALSE, FALSE, NoFiles)
PathBadZip  == Path(<<"x">> \o ZIP, TRUE, TRUE, NoFiles)
PathZip     == Path(<<"y">> \o ZIP, TRUE, FALSE, FilesOf({FB, FR}, "new"))
PathTxt     == Path(FR, TRUE, FALSE, NoFiles)
Paths == {PathFont, PathMissing, PathBadZip, PathZip, PathTxt}

\* the loop of lines 324-332 over the entries of the temporary directory
RECURSIVE LocalMoveLoop(_, _, _, _, _)
LocalMoveLoop(entries, ffiles, tfiles, installed, log) ==
    IF entries = <<>>
    THEN [ffiles |-> ffiles, tfiles |-> tfiles,
          installed |-> installed, log |-> log]
    ELSE LET font_file == Head(entries) IN
         IF Suffix(font_file) \in FontSuffixes
         THEN IF font_file \in DOMAIN ffiles
              THEN LocalMoveLoop(Tail(entries), ffiles, tfiles, installed,
                                 Append(log, Ev("skip_existing", font_file)))
              ELSE LocalMoveLoop(Tail(entries),
                                 (font_file :> tfiles[font_file]) @@ ffiles,
                                 Without(tfiles, {font_file}), TRUE,
                                 Append(log, Ev("installed_file", font_file)))
         ELSE LocalMoveLoop(Tail(entries), ffiles, tfiles, installed, log)

\* the body of the for loop of install_font_file_or_zip for one path
InstallPath(w, file_path) ==
    IF ~file_path.exists
    THEN [w |-> w, log |-> <<Ev("path_not_found", file_path.name)>>]
    ELSE IF Lower(Suffix(file_path.name)) \in FontSuffixes
    THEN IF file_path.name \in DOMAIN w.ffiles
         THEN [w |-> w, log |-> <<Ev("skip_existing", file_path.name)>>]
         ELSE [w |-> World(w.fexists,
                           (file_path.name :> "new") @@ w.ffiles,
                           w.texists, w.tfiles),
               log |-> <<Ev("installed_file", file_path.name)>>]
    ELSE IF Lower(Suffix(file_path.name)) = ZIP
    THEN IF file_path.corrupt
         THEN [w |-> World(w.fexists, w.ffiles, FALSE, NoFiles),
               log |-> <<Ev("invalid_zip", file_path.name)>>]
         ELSE LET extracted == file_path.archive @@ w.tfiles
                  m == LocalMoveLoop(SetToSeq(DOMAIN extracted),
                                     w.ffiles, extracted, FALSE, <<>>)
              IN [w |-> World(w.fexists, m.ffiles, FALSE, NoFiles),
                  log |-> IF m.installed THEN m.log
                          ELSE Append(m.log,
                                      Ev("NoValidFiles", file_path.name))]
    ELSE [w |-> w, log |-> <<Ev("unsupported", file_path.name)>>]

\* the loop over the paths leaving at the first path that does not exist
RECURSIVE InstallPathsLoop_Break(_, _, _)
InstallPathsLoop_Break(w, file_paths, log) ==
    IF file_paths = <<>> THEN [w |-> w, log |-> log]
    ELSE LET r == InstallPath(w, Head(file_paths))
         IN IF ~Head(file_paths).exists
            THEN [w |-> r.w, log |-> log \o r.log]
            ELSE InstallPathsLoop_Break(r.w, Tail(file_paths), log \o r.log)

\* the for loop of install_font_file_or_zip
RECURSIVE InstallPathsLoop(_, _, _)
InstallPathsLoop(w, file_paths, log) ==
    IF file_paths = <<>> THEN [w |-> w, log |-> log]
    ELSE LET r == InstallPath(w, Head(file_paths))
         IN InstallPathsLoop(r.w, Tail(file_paths), log \o r.log)

\* refresh_font_cache
refresh_font_cache(log) == Append(log, Ev("refresh", <<>>))

\* install_font_file_or_zip
install_font_file_or_zip(w, file_paths) ==
    LET r == InstallPathsLoop(World(TRUE, w.ffiles, w.texists, w.tfiles),
                              file_paths, <<>>)
    IN [w |-> r.w, log |-> refresh_font_cache(r.log)]

\* ------------------------------------------------------------------- main
VARIABLES
    regFile,    \* the content of ~/.gnfnt/fontRepos.json
    world,      \* the font directory and the temporary directory
    pc,         \* "idle", "confirm", "install", "exited" or "crashed"
    fonts,      \* main's list of the packages to install
    idx,        \* the position of the install loop in fonts
    outcomes,   \* what each processed package of fonts ended with
    log,        \* what this process printed and which calls it made
    exitCode,   \* the exit status, -1 while the process runs
    call        \* the last operation: its inputs, the state before, its result

vars == <<regFile, world, pc, fonts, idx, outcomes, log, exitCode, call>>

NoCall ==
    [op |-> "none", file0 |-> FileAbsent, pre |-> World(FALSE, NoFiles, FALSE, NoFiles),
     loaded |-> <<>>, resps |-> <<>>, result |-> {}, raised |-> FALSE,
     url |-> 0, font |-> <<>>, resp |-> DlErr("none"), paths |-> <<>>,
     answered |-> FALSE, answer |-> <<>>, installed |-> FALSE]

Answers == {<<"y">>, <<"Y">>, <<"n">>, <<"y", "e", "s">>, <<>>}

\* the orders in which list(set(...)) can enumerate a set
Perms(S) ==
    {s \in [1..Cardinality(S) -> S] :
        \A i, j \in DOMAIN s : i # j => s[i] # s[j]}

\* [f for f in names if not is_font_installed(f)]
NotInstalled(ffiles, names) ==
    LET Missing(f) == ~is_font_installed(ffiles, f)
    IN SelectSeq(names, Missing)

\* the responses the feeds of this registry file may give, one per request
FeedAnswers(file) ==
    [1..Len(load_repositories(file).val) -> FeedResponses]

Count(l, e) == Cardinality({i \in DOMAIN l : l[i][1] = e})

InitFiles ==
    {FileAbsent, FileNotJson, FileNonObject, FileNoKey}
        \cup {FileList(r) : r \in NoDupSeqs(Urls, MaxUrls)}

InitWorlds ==
    {World(FALSE, NoFiles, FALSE, NoFiles)}
        \cup {World(TRUE, FilesOf(S, "old"), FALSE, NoFiles) : S \in SUBSET {FA, FB}}

Init ==
    /\ regFile \in InitFiles
    /\ world \in InitWorlds
    /\ pc = "idle"
    /\ fonts = <<>>
    /\ idx = 1
    /\ outcomes = <<>>
    /\ log = <<>>
    /\ exitCode = -1
    /\ call = NoCall

\* sys.exit(code)
Exit(code) ==
    /\ pc' = "exited"
    /\ exitCode' = code

\* an exception no handler catches ends the process with status 1
Crash ==
    /\ pc' = "crashed"
    /\ exitCode' = 1

\* gnfnt
MainNoArgs ==
    /\ pc = "idle"
    /\ log' = <<Ev("help", <<>>)>>
    /\ Exit(1)
    /\ call' = [NoCall EXCEPT !.op = "noargs"]
    /\ UNCHANGED <<regFile, world, fonts, idx, outcomes>>

\* gnfnt -h
MainHelp ==
    /\ pc = "idle"
    /\ log' = <<Ev("help", <<>>)>>
    /\ Exit(0)
    /\ call' = [NoCall EXCEPT !.op = "help"]
    /\ UNCHANGED <<regFile, world, fonts, idx, outcomes>>

\* gnfnt -v
MainVersion ==
    /\ pc = "idle"
    /\ log' = <<Ev("version", <<>>)>>
    /\ Exit(0)
    /\ call' = [NoCall EXCEPT !.op = "version"]
    /\ UNCHANGED <<regFile, world, fonts, idx, outcomes>>

\* gnfnt -l: list_available_fonts, then exit 0
MainList ==
    /\ pc = "idle"
    /\ \E resps \in FeedAnswers(regFile) :
         LET r == get_all_nerd_fonts(regFile, resps) IN
         /\ regFile' = r.file
         /\ call' = [NoCall EXCEPT !.op = "resolve", !.file0 = regFile,
                                   !.pre = world,
                                   !.loaded = load_repositories(regFile).val,
                                   !.resps = resps, !.result = r.fonts,
                                   !.raised = r.raised]
         /\ IF r.raised
            THEN log' = r.log /\ Crash
            ELSE /\ log' = Append(r.log,
                                  Ev(IF r.fonts = {} THEN "no_fonts_found"
                                     ELSE "available_fonts", <<>>))
                 /\ Exit(0)
    /\ UNCHANGED <<world, fonts, idx, outcomes>>

\* gnfnt --repos: list_repositories, then exit 0
MainRepos ==
    /\ pc = "idle"
    /\ LET l == load_repositories(regFile) IN
         /\ call' = [NoCall EXCEPT !.op = "repos", !.file0 = regFile,
                                   !.pre = world,
                                   !.loaded = l.val, !.raised = l.raised]
         /\ IF l.raised
            THEN log' = <<>> /\ Crash
            ELSE /\ log' = <<Ev(IF l.val = <<>> THEN "no_repositories"
                                ELSE "saved_repositories", <<>>)>>
                 /\ Exit(0)
    /\ UNCHANGED <<regFile, world, fonts, idx, outcomes>>

\* gnfnt -a url
MainAdd(url) ==
    /\ pc = "idle"
    /\ LET r == add_repository(regFile, url) IN
         /\ regFile' = r.file
         /\ log' = r.log
         /\ call' = [NoCall EXCEPT !.op = "add", !.file0 = regFile,
                                   !.pre = world, !.url = url,
                                   !.loaded = load_repositories(regFile).val,
                                   !.raised = r.raised]
         /\ IF r.raised THEN Crash ELSE Exit(0)
    /\ UNCHANGED <<world, fonts, idx, outcomes>>

\* gnfnt -r url
MainRemove(url) ==
    /\ pc = "idle"
    /\ LET r == remove_repository(regFile, url) IN
         /\ regFile' = r.file
         /\ log' = r.log
         /\ call' = [NoCall EXCEPT !.op = "remove", !.file0 = regFile,
                                   !.pre = world, !.url = url,
                                   !.loaded = load_repositories(regFile).val,
                                   !.raised = r.raised]
         /\ IF r.raised THEN Crash ELSE Exit(0)
    /\ UNCHANGED <<world, fonts, idx, outcomes>>

\* gnfnt -f path ...
MainFile(file_paths) ==
    /\ pc = "idle"
    /\ LET r == install_font_file_or_zip(world, file_paths) IN
         /\ world' = r.w
         /\ log' = r.log
         /\ call' = [NoCall EXCEPT !.op = "file", !.file0 = regFile,
                                   !.pre = world, !.paths = file_paths]
    /\ Exit(0)
    /\ UNCHANGED <<regFile, fonts, idx, outcomes>>

\* the package list is known: exit 0 when it is empty, else enter the loop
EnterLoop(list) ==
    /\ fonts' = list
    /\ idx' = 1
    /\ outcomes' = <<>>
    /\ IF list = <<>> THEN Exit(0) ELSE pc' = "install" /\ exitCode' = -1

\* gnfnt "*": main blocks in input()
MainStar ==
    /\ pc = "idle"
    /\ pc' = "confirm"
    /\ log' = <<Ev("prompt", <<>>)>>
    /\ call' = [NoCall EXCEPT !.op = "star", !.file0 = regFile, !.pre = world]
    /\ UNCHANGED <<regFile, world, fonts, idx, outcomes, exitCode>>

\* a confirmation that only "n" declines
Declined_OnlyN(confirm) == Lower(confirm) = <<"n">>

\* confirm.lower() != "y"
Declined(confirm) == Lower(confirm) # <<"y">>

\* input() returns: abort, or resolve the feeds and enter the install loop
Confirm(confirm) ==
    /\ pc = "confirm"
    /\ IF Declined(confirm)
       THEN /\ log' = Append(log, Ev("aborted", <<>>))
            /\ Exit(0)
            /\ call' = [call EXCEPT !.op = "confirm", !.answered = TRUE,
                                    !.answer = confirm]
            /\ UNCHANGED <<regFile, world, fonts, idx, outcomes>>
       ELSE \E resps \in FeedAnswers(regFile) :
              LET r == get_all_nerd_fonts(regFile, resps) IN
              /\ regFile' = r.file
              /\ call' = [call EXCEPT !.op = "resolve", !.answered = TRUE,
                                      !.answer = confirm,
                                      !.loaded = load_repositories(regFile).val,
                                      !.resps = resps, !.result = r.fonts,
                                      !.raised = r.raised]
              /\ world' = world
              /\ IF r.raised \/ \E f \in r.fonts : GlobRaises(f)
                 THEN /\ log' = log \o r.log
                      /\ Crash
                      /\ UNCHANGED <<fonts, idx, outcomes>>
                 ELSE \E order \in Perms(r.fonts) :
                        LET list == NotInstalled(world.ffiles, order) IN
                        /\ log' = IF list = <<>>
                                  THEN Append(log \o r.log,
                                              Ev("nothing_to_do", <<>>))
                                  ELSE log \o r.log
                        /\ EnterLoop(list)

\* gnfnt name ...
MainNames(names) ==
    /\ pc = "idle"
    /\ IF \E i \in DOMAIN names : GlobRaises(names[i])
       THEN /\ log' = <<>>
            /\ Crash
            /\ UNCHANGED <<fonts, idx, outcomes>>
       ELSE LET list == NotInstalled(world.ffiles, names) IN
            /\ log' = IF list = <<>> THEN <<Ev("nothing_to_do", <<>>)>> ELSE <<>>
            /\ EnterLoop(list)
    /\ call' = [NoCall EXCEPT !.op = "names", !.file0 = regFile, !.pre = world]
    /\ UNCHANGED <<regFile, world>>

\* one iteration of main's loop: download_and_install_font(font, ...), and
\* after the last package the closing message
InstallNext ==
    /\ pc = "install"
    /\ idx <= Len(fonts)
    /\ \E resp \in DownloadResponses :
         LET r == download_and_install_font(world, fonts[idx], resp) IN
         /\ world' = r.w
         /\ call' = [NoCall EXCEPT !.op = "download", !.file0 = regFile,
                                   !.pre = world, !.font = fonts[idx],
                                   !.resp = resp, !.raised = r.raised]
         /\ outcomes' = Append(outcomes, r.outcome)
         /\ IF r.raised
            THEN /\ log' = log \o r.log
                 /\ Crash
                 /\ idx' = idx
            ELSE /\ idx' = idx + 1
                 /\ IF idx = Len(fonts)
                    THEN /\ log' = Append(log \o r.log, Ev("all_installed", <<>>))
                         /\ Exit(0)
                    ELSE /\ log' = log \o r.log
                         /\ UNCHANGED <<pc, exitCode>>
    /\ UNCHANGED <<regFile, fonts>>

\* the process is gone; the files stay for the next invocation
ProcessExit ==
    /\ pc \in {"exited", "crashed"}
    /\ pc' = "idle"
    /\ fonts' = <<>>
    /\ idx' = 1
    /\ outcomes' = <<>>
    /\ log' = <<>>
    /\ exitCode' = -1
    /\ call' = NoCall
    /\ UNCHANGED <<regFile, world>>

Next ==
    \/ MainNoArgs
    \/ MainHelp
    \/ MainVersion
    \/ MainList
    \/ MainRepos
    \/ \E url \in Urls : MainAdd(url)
    \/ \E url \in Urls : MainRemove(url)
    \/ \E file_paths \in SeqsUpTo(Paths, MaxPaths) : MainFile(file_paths)
    \/ MainStar
    \/ \E confirm \in Answers : Confirm(confirm)
    \/ \E names \in SeqsUpTo(Packages, MaxNames) : MainNames(names)
    \/ InstallNext
    \/ ProcessExit

Spec == Init /\ [][Next]_vars

\* ------------------------------------------------ is_font_installed alone
\* what the font directory may hold, and the names asked for
FAB == <<"a", "b">> \o OTF
FX  == <<"x", ".", "T", "T", "F">>
DirFiles == {FA, FB, FR, FAB, FX}
CheckNames ==
    {PkgA, PkgB, <<"a", "b">>, <<"x">>, <<"A">>, FA, <<"?">>, PkgAbs, <<>>}

InitInstalled ==
    /\ regFile = FileAbsent
    /\ world \in {World(FALSE, NoFiles, FALSE, NoFiles)}
                    \cup {World(TRUE, FilesOf(S, "old"), FALSE, NoFiles) :
                            S \in SUBSET DirFiles}
    /\ pc = "idle"
    /\ fonts = <<>>
    /\ idx = 1
    /\ outcomes = <<>>
    /\ log = <<>>
    /\ exitCode = -1
    /\ call = NoCall

\* is_font_installed(font_name): what it returns, or that glob raised
IsFontInstalledCall(font_name) ==
    /\ pc = "idle"
    /\ call' = [NoCall EXCEPT
                  !.op = "is_font_installed", !.pre = world,
                  !.font = font_name,
                  !.raised = GlobRaises(font_name),
                  !.installed = /\ ~GlobRaises(font_name)
                                /\ is_font_installed(world.ffiles, font_name)]
    /\ UNCHANGED <<regFile, world, pc, fonts, idx, outcomes, log, exitCode>>

NextInstalled == \E font_name \in CheckNames : IsFontInstalledCall(font_name)

SpecInstalled == InitInstalled /\ [][NextInstalled]_vars

\* ----------------------------------------------------------------- claims
\* the last operation was a download_and_install_font call that went past
\* the already-installed check, so it created the temporary directory
Downloaded ==
    /\ call.op = "download"
    /\ ~is_font_installed(call.pre.ffiles, call.font)

\* the last operation was install_font_file_or_zip and one of its paths was
\* an existing .zip, so it created the temporary directory
ProcessedArchive ==
    /\ call.op = "file"
    /\ \E i \in DOMAIN call.paths :
         /\ call.paths[i].exists
         /\ Lower(Suffix(call.paths[i].name)) = ZIP

\* C1: after an install operation that used ~/.gnfnt_temp has finished, on
\* whatever exit path, the temporary directory does not exist.
C1_TempDirRemoved ==
    (Downloaded \/ ProcessedArchive) => ~world.texists

InvalidKinds == {"neterr", "non200", "empty", "badjson"}

\* get_all_nerd_fonts has just returned (it did not raise)
Resolved ==
    /\ call.op = "resolve"
    /\ ~call.raised

\* C2: after get_all_nerd_fonts returns, every feed that answered with a
\* non-200 status, an empty body, malformed JSON or a network error is out of
\* the registry, and every feed that answered well-formed is still in it.
C2_InvalidFeedsPruned ==
    Resolved =>
        LET now == Range(load_repositories(regFile).val) IN
        \A i \in DOMAIN call.loaded :
            /\ call.resps[i].kind \in InvalidKinds => call.loaded[i] \notin now
            /\ call.resps[i].kind = "ok" => call.loaded[i] \in now

\* one feed was pruned and another one, valid, is all that is left
C2_Witness ==
    /\ Resolved
    /\ \E i, j \in DOMAIN call.loaded :
         /\ call.resps[i].kind \in InvalidKinds
         /\ call.resps[j].kind = "ok"
         /\ regFile = FileList(<<call.loaded[j]>>)

\* the asset name without its trailing ".zip"
StripZip(a) == SubSeq(a, 1, Len(a) - Len(ZIP))

\* what the valid feeds of the last resolution advertise: every asset name
\* that ends with ".zip", with that suffix cut off
AdvertisedPackages ==
    UNION {{StripZip(call.resps[i].assets[k]) :
                k \in {n \in DOMAIN call.resps[i].assets :
                          EndsWith(call.resps[i].assets[n], ZIP)}} :
           i \in {m \in DOMAIN call.resps : call.resps[m].kind = "ok"}}

\* C3: when at least one feed returns a well-formed asset list,
\* get_all_nerd_fonts returns exactly the union over the valid feeds of the
\* asset names ending with ".zip", with only that trailing suffix stripped.
C3_ResolvedIsUnion ==
    (Resolved /\ \E i \in DOMAIN call.resps : call.resps[i].kind = "ok")
        => call.result = AdvertisedPackages

\* the archive of the last download held no .ttf and no .otf file
ArchiveWithoutFonts ==
    /\ Downloaded
    /\ call.resp.kind = "ok"
    /\ \A n \in DOMAIN call.resp.archive : Suffix(n) \notin FontSuffixes

\* C4: a successful download of an archive without any .ttf or .otf file is
\* reported as NoValidFiles, not as Installed, and leaves the files of the
\* font directory as they were.
C4_NoValidFilesReported ==
    ArchiveWithoutFonts =>
        /\ outcomes[Len(outcomes)] = "NoValidFiles"
        /\ world.ffiles = call.pre.ffiles

\* C5: when the archive of one package of a run is corrupt, only that
\* package is aborted: once the process has ended, every package of the list
\* has been processed.
C5_OthersContinue ==
    (pc \in {"exited", "crashed"}
        /\ \E i \in DOMAIN outcomes : outcomes[i] = "BadZipFile")
        => Len(outcomes) = Len(fonts)

\* the font files the last install operation brought along: the .ttf/.otf
\* entries of the downloaded or local archives and the local font paths
IncomingFonts ==
    IF call.op = "download"
    THEN IF Downloaded /\ call.resp.kind = "ok"
         THEN {n \in DOMAIN call.resp.archive : Suffix(n) \in FontSuffixes}
         ELSE {}
    ELSE IF call.op = "file"
    THEN {call.paths[i].name :
            i \in {k \in DOMAIN call.paths :
                     /\ call.paths[k].exists
                     /\ Lower(Suffix(call.paths[k].name)) \in FontSuffixes}}
         \cup UNION {{n \in DOMAIN call.paths[i].archive :
                         Suffix(n) \in FontSuffixes} :
                     i \in {k \in DOMAIN call.paths :
                              /\ call.paths[k].exists
                              /\ ~call.paths[k].corrupt
                              /\ Lower(Suffix(call.paths[k].name)) = ZIP}}
    ELSE {}

\* C6: in every install path a font file whose name is already in the font
\* directory is skipped: the file there keeps its content, nothing is
\* raised, and the other font files of the operation are in the directory
\* afterwards.
C6_ExistingSkipped ==
    call.op \in {"download", "file"} =>
        /\ \A n \in DOMAIN call.pre.ffiles :
              /\ n \in DOMAIN world.ffiles
              /\ world.ffiles[n] = call.pre.ffiles[n]
        /\ IncomingFonts \cap DOMAIN call.pre.ffiles # {} =>
              /\ pc # "crashed"
              /\ IncomingFonts \subseteq DOMAIN world.ffiles

\* a download whose archive held one font already there, left as it was,
\* and one new font, installed
C6_Witness ==
    /\ call.op = "download"
    /\ \E n \in IncomingFonts \cap DOMAIN call.pre.ffiles :
         world.ffiles[n] = "old"
    /\ \E m \in IncomingFonts \ DOMAIN call.pre.ffiles :
         world.ffiles[m] = "new"

\* C7: install_font_file_or_zip processes every path: each missing path is
\* reported not-found, each existing .ttf/.otf path is in the font directory
\* afterwards (copied when its name was not there), and the cache refresh is
\* called exactly once, as the last thing, whatever the paths were.
C7_AllPathsProcessed ==
    call.op = "file" =>
        /\ pc = "exited"
        /\ exitCode = 0
        /\ \A i \in DOMAIN call.paths :
              ~call.paths[i].exists =>
                  \E k \in DOMAIN log :
                      /\ log[k][1] = "path_not_found"
                      /\ log[k][2] = call.paths[i].name
        /\ Count(log, "path_not_found")
              = Cardinality({i \in DOMAIN call.paths : ~call.paths[i].exists})
        /\ \A i \in DOMAIN call.paths :
              (call.paths[i].exists
                  /\ Suffix(call.paths[i].name) \in FontSuffixes) =>
                  /\ call.paths[i].name \in DOMAIN world.ffiles
                  /\ call.paths[i].name \notin DOMAIN call.pre.ffiles =>
                        world.ffiles[call.paths[i].name] = "new"
        /\ Count(log, "refresh") = 1
        /\ log[Len(log)][1] = "refresh"

\* the scenario of a missing path followed by a font file that gets copied
C7_Witness ==
    /\ call.op = "file"
    /\ call.paths = <<PathMissing, PathFont>>
    /\ FA \notin DOMAIN call.pre.ffiles
    /\ world.ffiles[FA] = "new"
    /\ Count(log, "refresh") = 1

\* C8: load_repositories never fails the process: with the registry file
\* missing or not holding the registry structure it returns the list of the
\* default feed URL only, and the file stays as it was.
C8_LoadNeverFails ==
    (call.op = "repos"
        /\ call.file0.kind \in {"absent", "notjson", "nonobject"})
        => /\ pc = "exited"
           /\ call.loaded = <<DefaultRepo>>
           /\ regFile = call.file0

\* C9: in bulk install, an answer to the confirmation other than "y"/"Y"
\* ends the process with exit code 0, with no network request made and no
\* file installed.
C9_DeclineExitsClean ==
    (call.answered /\ call.answer \notin {<<"y">>, <<"Y">>})
        => /\ pc = "exited"
           /\ exitCode = 0
           /\ Count(log, "GET") = 0
           /\ world = call.pre
           /\ regFile = call.file0

\* the user typed "yes", which is not an affirmative answer
C9_Witness ==
    /\ call.answered
    /\ call.answer = <<"y", "e", "s">>
    /\ pc = "exited"

NoDuplicates(s) == \A i, j \in DOMAIN s : i # j => s[i] # s[j]

\* C10: from a registry without duplicates (or an absent file), after any
\* sequence of add, remove and pruning the registry file holds no URL twice;
\* adding a URL that is present and removing one that is absent do not write
\* the file.
C10_RegistryNoDuplicates ==
    /\ NoDuplicates(regFile.repos)
    /\ (call.op = "add" /\ call.url \in Range(call.loaded)) =>
          /\ Count(log, "save") = 0
          /\ regFile = call.file0
    /\ (call.op = "remove" /\ call.url \notin Range(call.loaded)) =>
          /\ Count(log, "save") = 0
          /\ regFile = call.file0

\* the default URL is added while the file is absent: nothing is written
C10_Witness ==
    /\ call.op = "add"
    /\ call.url \in Range(call.loaded)
    /\ call.file0 = FileAbsent
    /\ regFile = FileAbsent

\* a file of the directory whose name starts with font_name and ends with
\* ".ttf" or ".otf"
PrefixAndExtension(ffiles, font_name) ==
    \E f \in DOMAIN ffiles :
        /\ StartsWith(f, font_name)
        /\ EndsWith(f, TTF) \/ EndsWith(f, OTF)

\* C11: is_font_installed(name) never raises and returns true exactly when
\* the font directory holds a file whose name starts with name and ends with
\* ".ttf" or ".otf"; it returns false for an empty or absent directory.
C11_InstalledIffPrefixMatch ==
    call.op = "is_font_installed" =>
        /\ ~call.raised
        /\ call.installed
              <=> PrefixAndExtension(call.pre.ffiles, call.font)
        /\ (~call.pre.fexists \/ DOMAIN call.pre.ffiles = {})
              => ~call.installed

====
